---------------------------- MODULE Spec2Model ----------------------------
(***************************************************************************)
(* Model of SpotifyClient (Contents/Code/client.py): the bridge between a  *)
(* single-threaded host and the libspotify session.  Every handler of the  *)
(* class is an operator from a bridge state (a record) to the bridge state *)
(* it leaves; the actions apply the handlers to the variables.             *)
(***************************************************************************)
EXTENDS Integers, Sequences, FiniteSets, TLC

(* ------------------------------ bounds --------------------------------- *)
\* timers armed at once (a fired or cancelled timer frees its token)
MaxLive == 2
\* successful play_track calls in one run (each registers fresh callbacks)
MaxPlays == 2
\* invocations of one stop callback that are counted
MaxCalls == 2
\* frames offered to one music_delivery call
MaxFrames == 1
\* get_art requests in one run
MaxArt == 2
\* the longest timeout given to wait_until_loaded, in clock ticks
MaxTimeout == 3
\* the longest POLL_INTERVAL, in clock ticks
MaxPoll == 2
\* the longest time one drain of the event queue takes, in clock ticks
MaxDrain == 1
\* the loop iterations of wait_until_loaded that fit in POLL_TIMEOUT, in the
\* call-stack model of the drains
MaxPolls == 1

(* --------------------------- values ------------------------------------ *)
\* Python's None, for the fields that hold a token, a callback or an object
None == 0
\* the session object spotify.connect returns and logged_in stores
TheSession == 1
\* ret of an operation that returns nothing (or raised)
NoValue == -1

VARIABLES
    \* fields of SpotifyClient
    timer, session, logging_in, stop_callback, audio_callback, audio_converter,
    \* the host's scheduler: the tokens armed and not yet fired or cancelled
    armed,
    \* the session engine: "none" before connect, "active", "loggedout"
    engine,
    \* playback contexts installed so far, and invocations of each stop callback
    plays, calls,
    \* album browses the session has pending (request numbers), the link type of
    \* each get_art request made, and the requests whose callback was invoked
    browses, artReqs, artDone,
    \* the last operation: its name, its return value, whether it raised, and
    \* the collaborator calls it made, in order
    op, ret, exc, ev,
    \* history: a periodic_check began / a timer was armed after logged_out
    lateCheck, lateArm,
    \* history: the parity of the number of periodic_check executions
    tick,
    \* the call stack of the logical context, outermost frame first: each frame
    \* is <<function, artwork request, loop iterations left>>; the requests
    \* whose image is loaded (images); whether an exception is leaving the top frame
    stack, images, raising,
    \* where the logical context (lpc) and the session's audio thread (spc)
    \* stand when their calls are followed line by line, as <<routine, line of
    \* client.py>>, and the local frames_converted of music_delivery
    lpc, spc, frames_converted,
    \* one call of wait_until_loaded: its position, the clock, its locals start
    \* and timeout, POLL_INTERVAL, the ticks left to sleep, the object's loaded
    \* predicate and when it became true, the predicate checks and the drains
    \* made, and how the call ended
    wpc, now, start, timeout, poll_interval, sleeping, is_loaded, loaded_at,
    checks, pumps, result

bridge == <<timer, session, logging_in, stop_callback, audio_callback, audio_converter>>
vars == <<timer, session, logging_in, stop_callback, audio_callback, audio_converter,
          armed, engine, plays, calls, browses, artReqs, artDone,
          op, ret, exc, ev, lateCheck, lateArm, tick, stack, images, raising,
          lpc, spc, frames_converted,
          wpc, now, start, timeout, poll_interval, sleeping, is_loaded, loaded_at,
          checks, pumps, result>>
svars == <<stack, images, raising>>
cvars == <<lpc, spc, frames_converted>>
\* no call is under way on a thread
IdlePc == <<"idle", 0>>
wvars == <<wpc, now, start, timeout, poll_interval, sleeping, is_loaded, loaded_at,
           checks, pumps, result>>

\* the state a handler starts from: the variables, and an empty record of the call
Self ==
    [timer |-> timer, session |-> session, logging_in |-> logging_in,
     stop_callback |-> stop_callback, audio_callback |-> audio_callback,
     audio_converter |-> audio_converter,
     armed |-> armed, engine |-> engine,
     plays |-> plays, calls |-> calls,
     browses |-> browses, artReqs |-> artReqs, artDone |-> artDone,
     ret |-> NoValue, exc |-> FALSE, ev |-> <<>>, tok |-> None,
     lateCheck |-> lateCheck, lateArm |-> lateArm, tick |-> tick]

\* the bridge, its collaborators and the record of the call after `name`
\* left the state r
Store(name, r) ==
    /\ timer' = r.timer
    /\ session' = r.session
    /\ logging_in' = r.logging_in
    /\ stop_callback' = r.stop_callback
    /\ audio_callback' = r.audio_callback
    /\ audio_converter' = r.audio_converter
    /\ armed' = r.armed
    /\ engine' = r.engine
    /\ plays' = r.plays
    /\ calls' = r.calls
    /\ browses' = r.browses
    /\ artReqs' = r.artReqs
    /\ artDone' = r.artDone
    /\ op' = name
    /\ ret' = r.ret
    /\ exc' = r.exc
    /\ ev' = r.ev
    /\ lateCheck' = r.lateCheck
    /\ lateArm' = r.lateArm
    /\ tick' = r.tick
    /\ UNCHANGED wvars

\* the variables after handler `name`, run to its end on an idle logical
\* context, left the state r
Commit(name, r) == Store(name, r) /\ UNCHANGED svars /\ UNCHANGED cvars

\* a collaborator call, recorded in order
Call(s, name, arg) == [s EXCEPT !.ev = Append(@, <<name, arg>>)]
\* an exception leaves the handler
Raise(s) == [s EXCEPT !.exc = TRUE, !.ret = NoValue]
Return(s, v) == [s EXCEPT !.ret = v]

(* --------------------------- playback ---------------------------------- *)
\* cleanup (client.py 226-231); o is what the stop callback does: "ok" or "raise"
cleanup(s, o) ==
    IF s.stop_callback # None
    THEN LET c == s.stop_callback
             s1 == Call([s EXCEPT !.calls[c] = @ + 1], "stop_callback", c)
         IN  IF o = "raise"
             THEN Raise(s1)
             ELSE [s1 EXCEPT !.stop_callback = None, !.audio_converter = None]
    ELSE [s EXCEPT !.audio_converter = None]

\* the counters stay within the bounds of the run
Bounded(r) ==
    /\ Cardinality(r.armed) <= MaxLive
    /\ r.plays <= MaxPlays
    /\ Len(r.artReqs) <= MaxArt
    /\ \A c \in DOMAIN r.calls : r.calls[c] <= MaxCalls

\* stop_playback (client.py 141-147)
stop_playback(s, o) ==
    IF s.audio_converter = None THEN s ELSE cleanup(s, o)

\* end_of_track (client.py 247-250)
end_of_track(s, o) == cleanup(s, o)

\* play_track with lines 181 and 182 exchanged: the old context is stopped
\* before the track is loaded
play_track_stops_first(s, loadOk, o, started) ==
    LET s1 == stop_playback(s, o)
        n == s.plays + 1
    IN  IF s1.exc THEN s1
        ELSE IF ~loadOk THEN Raise(s1)
        ELSE IF s1.session = None THEN Raise(s1)
        ELSE IF ~started THEN Raise(Call(s1, "session.load", n))
        ELSE [Call(Call(s1, "session.load", n), "session.play", n)
                 EXCEPT !.audio_converter = n,
                        !.audio_callback = n,
                        !.stop_callback = n,
                        !.plays = n]

\* play_track without the stop_playback of line 182
play_track_keeps_old(s, loadOk, o, started) ==
    IF ~loadOk
    THEN Raise(s)
    ELSE LET n == s.plays + 1
         IN  IF s.session = None THEN Raise(s)
             ELSE IF ~started THEN Raise(Call(s, "session.load", n))
             ELSE [Call(Call(s, "session.load", n), "session.play", n)
                      EXCEPT !.audio_converter = n,
                             !.audio_callback = n,
                             !.stop_callback = n,
                             !.plays = n]

\* play_track (client.py 171-187).  loadOk: load_track returned the track
\* (wait_until_loaded found it loaded; otherwise it raised); o: what the old
\* stop callback does; started: session.load accepted the track (otherwise it
\* raised).  The new context gets the fresh identity n = plays + 1: converter
\* n, audio callback n, stop callback n.
play_track(s, loadOk, o, started) ==
    IF ~loadOk
    THEN Raise(s)
    ELSE LET s1 == stop_playback(s, o)
             n == s.plays + 1
         IN  IF s1.exc THEN s1
             ELSE IF s1.session = None THEN Raise(s1)
             ELSE IF ~started THEN Raise(Call(s1, "session.load", n))
             ELSE [Call(Call(s1, "session.load", n), "session.play", n)
                      EXCEPT !.audio_converter = n,
                             !.audio_callback = n,
                             !.stop_callback = n,
                             !.plays = n]

\* the except clause of music_delivery (client.py 285-289)
delivery_failed(s, o) ==
    IF s.audio_converter # None
    THEN LET s1 == stop_playback(s, o)
         IN  IF s1.exc THEN s1 ELSE Return(s1, 0)
    ELSE Return(s, 0)

\* music_delivery that returns 0 where line 284 returns frames_converted
music_delivery_returns_zero(s, conv, sink, o1, o2) ==
    IF s.audio_converter = None
    THEN Return(s, 0)
    ELSE LET s1 == Call(s, "convert", s.audio_converter)
         IN  IF conv < 0
             THEN delivery_failed(s1, o2)
             ELSE LET s2 == Call(s1, "get_pending_data", s.audio_converter)
                  IN  IF sink = "raise"
                      THEN delivery_failed(Call(s2, "audio_callback->raise", s.audio_callback), o2)
                      ELSE IF sink = "false"
                      THEN LET s3 == stop_playback(Call(s2, "audio_callback->False", s.audio_callback), o1)
                           IN  IF s3.exc
                               THEN delivery_failed([s3 EXCEPT !.exc = FALSE], o2)
                               ELSE Return(s3, 0)
                      ELSE Return(Call(s2, "audio_callback->True", s.audio_callback), 0)

\* music_delivery whose first test reads audio_callback instead of audio_converter
music_delivery_tests_callback(s, conv, sink, o1, o2) ==
    IF s.audio_callback = None
    THEN Return(s, 0)
    ELSE LET s1 == Call(s, "convert", s.audio_converter)
         IN  IF conv < 0
             THEN delivery_failed(s1, o2)
             ELSE LET s2 == Call(s1, "get_pending_data", s.audio_converter)
                  IN  IF sink = "raise"
                      THEN delivery_failed(Call(s2, "audio_callback->raise", s.audio_callback), o2)
                      ELSE IF sink = "false"
                      THEN LET s3 == stop_playback(Call(s2, "audio_callback->False", s.audio_callback), o1)
                           IN  IF s3.exc
                               THEN delivery_failed([s3 EXCEPT !.exc = FALSE], o2)
                               ELSE Return(s3, 0)
                      ELSE Return(Call(s2, "audio_callback->True", s.audio_callback), conv)

\* music_delivery (client.py 274-289).  conv: frames the converter consumed, or
\* -1 when convert raises; sink: what the audio callback does ("true", "false",
\* "raise"); o1: what the stop callback does when stop_playback follows a refused
\* frame; o2: what it does when the except clause calls stop_playback.
music_delivery(s, conv, sink, o1, o2) ==
    IF s.audio_converter = None
    THEN Return(s, 0)
    ELSE LET s1 == Call(s, "convert", s.audio_converter)
         IN  IF conv < 0
             THEN delivery_failed(s1, o2)
             ELSE LET s2 == Call(s1, "get_pending_data", s.audio_converter)
                  IN  IF sink = "raise"
                      THEN delivery_failed(Call(s2, "audio_callback->raise", s.audio_callback), o2)
                      ELSE IF sink = "false"
                      THEN LET s3 == stop_playback(Call(s2, "audio_callback->False", s.audio_callback), o1)
                           IN  IF s3.exc
                               THEN delivery_failed([s3 EXCEPT !.exc = FALSE], o2)
                               ELSE Return(s3, 0)
                      ELSE Return(Call(s2, "audio_callback->True", s.audio_callback), conv)

(* --------------------------- event pump -------------------------------- *)
\* the tokens of the scheduler, and the one it hands out next: a token that
\* is not armed
Tokens == 1..(MaxLive + 1)
FreeToken(s) == CHOOSE t \in Tokens : t \notin s.armed /\ \A u \in Tokens \ s.armed : t <= u

\* RunLoopMixin.schedule_timer (utils, not in the sources): arms a one-shot
\* timer for the callback and returns its token (in tok)
schedule_timer(s, delay) ==
    LET t == FreeToken(s)
    IN  Call([s EXCEPT !.armed = @ \cup {t}, !.tok = t], "schedule_timer", delay)

\* RunLoopMixin.cancel_timer (utils, not in the sources): the token never fires;
\* a token that is not armed (or None) is ignored
cancel_timer(s, t) == Call([s EXCEPT !.armed = @ \ {t}], "cancel_timer", t)

\* schedule_periodic_check (client.py 215-218); the timeout is kept in
\* milliseconds.  lateArm records an arming after logged_out.
schedule_periodic_check(s, delay) ==
    LET s1 == schedule_timer(s, delay)
    IN  [s1 EXCEPT !.timer = s1.tok,
                   !.lateArm = @ \/ (s.engine = "loggedout")]

\* logged_in without the assignment of line 238
logged_in_keeps_flag(s, error) ==
    [s EXCEPT !.session = TheSession]

\* logged_in (client.py 235-239); error: the login failed
logged_in(s, error) ==
    [s EXCEPT !.logging_in = FALSE, !.session = TheSession]

\* logged_out (client.py 241-245); the engine is logged out from here on
logged_out(s) ==
    cancel_timer([s EXCEPT !.session = None, !.engine = "loggedout"], s.timer)

\* wake (client.py 252-255)
wake(s) == schedule_periodic_check(s, 0)

\* the notifications a drain of the event queue can deliver
DrainEvents(s) ==
    IF s.engine = "active"
    THEN {"none", "raise", "logged_in", "login_failed", "logged_out"}
    ELSE {"none", "raise"}

\* session.process_events as periodic_check calls it: the drain delivers the
\* notification d to its handler (or raises) and returns the next timeout
process_events(s, d) ==
    LET s1 == Call(s, "process_events", 0)
    IN  CASE d = "raise" -> Raise(s1)
          [] d = "logged_in" -> logged_in(Call(s1, "logged_in", 0), FALSE)
          [] d = "login_failed" -> logged_in(Call(s1, "login_failed", 0), TRUE)
          [] d = "logged_out" -> logged_out(Call(s1, "logged_out", 0))
          [] OTHER -> s1

\* periodic_check that re-arms in a finally clause, whatever the drain did
periodic_check_always_rearms(s, d, ms) ==
    LET s1 == process_events([s EXCEPT !.lateCheck = @ \/ (s.engine = "loggedout"),
                                       !.tick = ~@], d)
    IN  IF s1.exc
        THEN Raise(schedule_periodic_check([s1 EXCEPT !.exc = FALSE], 0))
        ELSE schedule_periodic_check(s1, ms)

\* periodic_check that re-arms with the default timeout, not the one returned
periodic_check_default_delay(s, d, ms) ==
    LET s1 == process_events([s EXCEPT !.lateCheck = @ \/ (s.engine = "loggedout"),
                                       !.tick = ~@], d)
    IN  IF s1.exc THEN s1 ELSE schedule_periodic_check(s1, 0)

\* periodic_check (client.py 220-224); ms: the timeout process_events returns.
\* lateCheck records a periodic_check that begins after logged_out, tick that
\* one more periodic_check ran.
periodic_check(s, d, ms) ==
    LET s1 == process_events([s EXCEPT !.lateCheck = @ \/ (s.engine = "loggedout"),
                                       !.tick = ~@], d)
    IN  IF s1.exc THEN s1 ELSE schedule_periodic_check(s1, ms)

\* connect (client.py 52-56); ok: spotify.connect returned a session
connect(s, ok) ==
    LET s1 == Call([s EXCEPT !.logging_in = TRUE], "spotify.connect", 0)
    IN  IF ~ok THEN Raise(s1)
        ELSE schedule_periodic_check([s1 EXCEPT !.engine = "active"], 0)

\* disconnect (client.py 58-63)
disconnect(s) ==
    IF s.session = None THEN s ELSE Call(s, "session.logout", 0)

\* is_logging_in, is_logged_in (client.py 41-45)
is_logging_in == logging_in
is_logged_in == session # None

(* ----------------------------- artwork --------------------------------- *)
LinkTypes == {"album", "track"}

\* get_art without the link type test of lines 91-92
get_art_any_link(s, type) ==
    LET n == Len(s.artReqs) + 1
        s1 == [s EXCEPT !.artReqs = Append(@, type)]
    IN  IF s1.session = None THEN Raise(s1)
        ELSE Return(Call([s1 EXCEPT !.browses = @ \cup {n}], "session.browse_album", n), n)

\* get_art (client.py 80-98) with browse_album (client.py 120-132); type: what
\* the URI links to.  The request gets the
\* number n; the browse the session keeps pending carries it.
get_art(s, type) ==
    LET n == Len(s.artReqs) + 1
        s1 == [s EXCEPT !.artReqs = Append(@, type)]
    IN  IF type # "album" THEN Raise(s1)
        ELSE IF s1.session = None THEN Raise(s1)
        ELSE Return(Call([s1 EXCEPT !.browses = @ \cup {n}], "session.browse_album", n), n)

\* callback_wrapper and browse_finished (client.py 94-97, 127-129) with
\* load_image (client.py 149-158): the browse of request n completed.
\* w: how wait_until_loaded ends for the image: "loaded" at the first check,
\* "pumped" after draining events, "timeout" (not loaded: assert_loaded raises).
browse_finished(s, n, w) ==
    LET s0 == [s EXCEPT !.browses = @ \ {n}]
    IN  IF s0.session = None THEN Raise(s0)
        ELSE LET s1 == Call(s0, "session.image_create", n)
                 s2 == IF w = "loaded" THEN s1 ELSE Call(s1, "process_events", 0)
             IN  IF w = "timeout" THEN Raise(s2)
                 ELSE Call([s2 EXCEPT !.artDone = @ \cup {n}], "art_callback", n)

(* ----------------------------- actions --------------------------------- *)
Outcomes == {"ok", "raise"}
Delays == {0, 1000}

\* no call of wait_until_loaded is under way
NoWait ==
    /\ wpc = "idle"
    /\ now = 0
    /\ start = 0
    /\ timeout = 0
    /\ poll_interval = 1
    /\ sleeping = 0
    /\ is_loaded = FALSE
    /\ loaded_at = NoValue
    /\ checks = 0
    /\ pumps = 0
    /\ result = "none"

\* the bridge as __init__ leaves it (client.py 23-37)
Init ==
    /\ NoWait
    /\ timer = None
    /\ session = None
    /\ logging_in = FALSE
    /\ stop_callback = None
    /\ audio_callback = None
    /\ audio_converter = None
    /\ armed = {}
    /\ engine = "none"
    /\ plays = 0
    /\ calls = [c \in 1..MaxPlays |-> 0]
    /\ browses = {}
    /\ artReqs = <<>>
    /\ artDone = {}
    /\ op = "init"
    /\ ret = NoValue
    /\ exc = FALSE
    /\ ev = <<>>
    /\ lateCheck = FALSE
    /\ lateArm = FALSE
    /\ tick = FALSE
    /\ stack = <<>>
    /\ images = {}
    /\ raising = FALSE
    /\ lpc = IdlePc
    /\ spc = IdlePc
    /\ frames_converted = 0

Do(name, r) == Bounded(r) /\ Commit(name, r)

Connect == \E ok \in BOOLEAN : Do("connect", connect(Self, ok))

Disconnect == Do("disconnect", disconnect(Self))

LoggedIn ==
    /\ engine = "active"
    /\ \E error \in BOOLEAN : Do(IF error THEN "login_failed" ELSE "logged_in", logged_in(Self, error))

LoggedOut ==
    /\ engine = "active"
    /\ Do("logged_out", logged_out(Self))

Wake ==
    /\ engine # "none"
    /\ Do("wake", wake(Self))

\* the timer t fires: the scheduler runs its callback, periodic_check
TimerFire ==
    \E t \in armed :
        LET s == [Self EXCEPT !.armed = @ \ {t}]
        IN  \E d \in DrainEvents(s), ms \in Delays :
                Do("periodic_check", periodic_check(s, d, ms))

\* what a stop callback may do when it is invoked; with none registered none
\* is invoked, and one outcome stands for all
StopOutcomes == IF stop_callback = None THEN {"ok"} ELSE Outcomes

\* the outcomes that no statement of this call reads are fixed
PlayTrack ==
    \E loadOk \in BOOLEAN, o \in StopOutcomes, started \in BOOLEAN :
        /\ ~loadOk => o = "ok"
        /\ (~loadOk \/ session = None \/ (audio_converter # None /\ o = "raise")) => started
        /\ Do("play_track", play_track(Self, loadOk, o, started))

StopPlayback == \E o \in StopOutcomes : Do("stop_playback", stop_playback(Self, o))

EndOfTrack ==
    /\ engine # "none"
    /\ \E o \in StopOutcomes : Do("end_of_track", end_of_track(Self, o))

\* the outcomes that no statement of this call reads are fixed
MusicDelivery ==
    /\ engine # "none"
    /\ \E conv \in -1..MaxFrames, sink \in {"true", "false", "raise"},
          o1 \in StopOutcomes, o2 \in StopOutcomes :
           /\ audio_converter = None => conv = 0
           /\ (audio_converter = None \/ conv < 0) => sink = "true"
           /\ (audio_converter = None \/ conv < 0 \/ sink # "false") => o1 = "ok"
           /\ (audio_converter = None \/ (conv >= 0 /\ sink = "true")
                 \/ (conv >= 0 /\ sink = "false" /\ o1 = "ok")) => o2 = "ok"
           /\ Do("music_delivery", music_delivery(Self, conv, sink, o1, o2))

GetArt == \E type \in LinkTypes : Do("get_art", get_art(Self, type))

BrowseFinished ==
    \E n \in browses, w \in {"loaded", "pumped", "timeout"} :
        Do("browse_finished", browse_finished(Self, n, w))

Next ==
    \/ Connect
    \/ Disconnect
    \/ LoggedIn
    \/ LoggedOut
    \/ Wake
    \/ TimerFire
    \/ PlayTrack
    \/ StopPlayback
    \/ EndOfTrack
    \/ MusicDelivery
    \/ GetArt
    \/ BrowseFinished

\* the whole bridge
Spec == Init /\ [][Next]_vars

\* the Playback Controller and the Audio Delivery Pipeline, with the session
\* notifications that set and clear the session handle they use
NextPlay ==
    \/ Connect
    \/ LoggedIn
    \/ LoggedOut
    \/ PlayTrack
    \/ StopPlayback
    \/ EndOfTrack
    \/ MusicDelivery

SpecPlay == Init /\ [][NextPlay]_vars

\* the Session Lifecycle Bridge and the Periodic Event Pump
NextSession ==
    \/ Connect
    \/ Disconnect
    \/ LoggedIn
    \/ LoggedOut
    \/ Wake
    \/ TimerFire

SpecSession == Init /\ [][NextSession]_vars

\* the Session Lifecycle Bridge and the Periodic Event Pump on a host whose
\* scheduler fires every timer it keeps armed (RunLoopMixin timers are one-shot
\* timers of the host's run loop)
SpecSessionFair == SpecSession /\ WF_vars(TimerFire)

\* artwork requests, with the session notifications
NextArt ==
    \/ Connect
    \/ LoggedIn
    \/ LoggedOut
    \/ GetArt
    \/ BrowseFinished

SpecArt == Init /\ [][NextArt]_vars

(* ------------------------- wait_until_loaded --------------------------- *)
\* the loop condition with >= for >
keep_waiting_inclusive(loaded, st, nw, to) == ~loaded /\ st >= nw - to

\* the loop condition of wait_until_loaded (client.py 198)
keep_waiting(loaded, st, nw, to) == ~loaded /\ st > nw - to

\* assert_loaded (utils, not in the sources): raises the not-loaded error for
\* an object whose loaded predicate is false
assert_loaded(loaded) == IF loaded THEN "returned" ELSE "NotLoaded"

\* the bridge is called with an object and a timeout, at time 1; the bridge may
\* or may not hold a session handle, and the object may be loaded already
\* (since time 0)
InitWait ==
    /\ timer = None
    /\ session \in {None, TheSession}
    /\ logging_in = FALSE
    /\ stop_callback = None
    /\ audio_callback = None
    /\ audio_converter = None
    /\ armed = {}
    /\ engine = IF session = None THEN "none" ELSE "active"
    /\ plays = 0
    /\ calls = [c \in 1..MaxPlays |-> 0]
    /\ browses = {}
    /\ artReqs = <<>>
    /\ artDone = {}
    /\ op = "init"
    /\ ret = NoValue
    /\ exc = FALSE
    /\ ev = <<>>
    /\ lateCheck = FALSE
    /\ lateArm = FALSE
    /\ tick = FALSE
    /\ stack = <<>>
    /\ images = {}
    /\ raising = FALSE
    /\ lpc = IdlePc
    /\ spc = IdlePc
    /\ frames_converted = 0
    /\ wpc = "call"
    /\ now = 1
    /\ start = 0
    /\ timeout \in 0..MaxTimeout
    /\ poll_interval \in 1..MaxPoll
    /\ sleeping = 0
    /\ is_loaded \in BOOLEAN
    /\ loaded_at = IF is_loaded THEN 0 ELSE NoValue
    /\ checks = 0
    /\ pumps = 0
    /\ result = "none"

WaitFrame == UNCHANGED <<timer, session, logging_in, stop_callback, audio_callback,
                         audio_converter, armed, engine, plays, calls, browses,
                         artReqs, artDone, op, ret, exc, ev, lateCheck, lateArm,
                         tick, stack, images, raising, lpc, spc, frames_converted,
                         timeout, poll_interval>>

\* start = time() (client.py 197)
WaitBegin ==
    /\ wpc = "call"
    /\ start' = now
    /\ wpc' = "while"
    /\ UNCHANGED <<now, sleeping, is_loaded, loaded_at, checks, pumps, result>>
    /\ WaitFrame

\* the test of the while loop (client.py 198)
WaitWhile ==
    /\ wpc = "while"
    /\ checks' = checks + 1
    /\ wpc' = IF keep_waiting(is_loaded, start, now, timeout) THEN "pump" ELSE "assert"
    /\ UNCHANGED <<now, start, sleeping, is_loaded, loaded_at, pumps, result>>
    /\ WaitFrame

\* self.session.process_events() (client.py 201): without a session handle
\* the attribute access raises; a drain may raise; otherwise it takes d ticks
WaitPump ==
    /\ wpc = "pump"
    /\ \E drain \in {"ok", "raise"}, d \in 0..MaxDrain :
           IF session = None \/ drain = "raise"
           THEN /\ d = 0
                /\ session = None => drain = "ok"
                /\ result' = "error"
                /\ wpc' = "done"
                /\ UNCHANGED <<now, sleeping, pumps>>
           ELSE /\ pumps' = pumps + 1
                /\ now' = now + d
                /\ sleeping' = poll_interval
                /\ wpc' = "sleep"
                /\ UNCHANGED result
    /\ UNCHANGED <<start, is_loaded, loaded_at, checks>>
    /\ WaitFrame

\* sleep(POLL_INTERVAL) (client.py 202), one tick of the clock at a time
WaitSleep ==
    /\ wpc = "sleep"
    /\ now' = now + 1
    /\ sleeping' = sleeping - 1
    /\ wpc' = IF sleeping' = 0 THEN "while" ELSE "sleep"
    /\ UNCHANGED <<start, is_loaded, loaded_at, checks, pumps, result>>
    /\ WaitFrame

\* assert_loaded(spotify_object); return spotify_object (client.py 203-204)
WaitAssert ==
    /\ wpc = "assert"
    /\ checks' = checks + 1
    /\ result' = assert_loaded(is_loaded)
    /\ wpc' = "done"
    /\ UNCHANGED <<now, start, sleeping, is_loaded, loaded_at, pumps>>
    /\ WaitFrame

\* the session populates the object (on its own thread, at any moment)
ObjectLoads ==
    /\ wpc \in {"call", "while", "pump", "sleep", "assert"}
    /\ ~is_loaded
    /\ is_loaded' = TRUE
    /\ loaded_at' = now
    /\ UNCHANGED <<wpc, now, start, sleeping, checks, pumps, result>>
    /\ WaitFrame

WaitStep ==
    \/ WaitBegin
    \/ WaitWhile
    \/ WaitPump
    \/ WaitSleep
    \/ WaitAssert

NextWait ==
    \/ WaitStep
    \/ ObjectLoads

SpecWait == InitWait /\ [][NextWait]_vars

(* ------------- the drains on the call stack of the logical context ----- *)
\* The host runs timer callbacks and commands one at a time on the logical
\* context; session.process_events delivers the session's notifications by
\* calling their handlers inside itself.  This part follows the frames of
\* periodic_check, process_events, browse_finished and wait_until_loaded.
\* No logout happens in it, so the session handle of a pending browse is set.
Top == stack[Len(stack)]
Pop(st) == SubSeq(st, 1, Len(st) - 1)
Idle == stack = <<>> /\ ~raising
\* the calls of session.process_events that have begun and not ended
DrainsInProgress == Cardinality({i \in 1..Len(stack) : stack[i][1] = "process_events"})

\* what a step on the stack leaves alone
Unmoved == UNCHANGED <<timer, session, logging_in, stop_callback, audio_callback,
                       audio_converter, armed, engine, plays, calls, browses,
                       artReqs, artDone, op, ret, exc, ev, lateCheck, lateArm,
                       tick>> /\ UNCHANGED wvars /\ UNCHANGED cvars

\* the bridge and the record of the call after a step on the stack
Frame(name, r) == Store(name, r) /\ UNCHANGED cvars

\* a timer fires on the idle context: periodic_check calls process_events
\* (client.py 217, 220-223)
PeriodicCheckEnter ==
    /\ Idle
    /\ \E t \in armed :
        LET s == [Self EXCEPT !.armed = @ \ {t},
                              !.lateCheck = @ \/ (engine = "loggedout"),
                              !.tick = ~@]
        IN  Frame("periodic_check", Call(s, "process_events", 0))
    /\ stack' = << <<"periodic_check", 0, 0>>, <<"process_events", 0, 0>> >>
    /\ UNCHANGED <<images, raising>>

\* the drain on top delivers the completion of browse n: callback_wrapper calls
\* browse_finished, which calls load_image, which creates the image and enters
\* wait_until_loaded (client.py 127-129, 94-95, 156-157, 197); the image may
\* be loaded at once
DeliverBrowseComplete ==
    /\ stack # <<>> /\ ~raising
    /\ Top[1] = "process_events"
    /\ session # None
    /\ \E n \in browses :
        /\ Frame("browse_finished",
                 Call([Self EXCEPT !.browses = @ \ {n}], "session.image_create", n))
        /\ stack' = stack \o << <<"browse_finished", n, 0>>,
                                <<"wait_until_loaded", n, MaxPolls>> >>
        /\ \E cached \in BOOLEAN : images' = IF cached THEN images \cup {n} ELSE images
    /\ UNCHANGED raising

\* the drain on top completes the load of an image that a frame is waiting for
ImageLoads ==
    /\ stack # <<>> /\ ~raising
    /\ Top[1] = "process_events"
    /\ \E i \in 1..Len(stack) :
        /\ stack[i][1] = "wait_until_loaded"
        /\ stack[i][2] \notin images
        /\ images' = images \cup {stack[i][2]}
    /\ Unmoved
    /\ UNCHANGED <<stack, raising>>

\* one iteration of the loop of wait_until_loaded: not loaded and time left,
\* so it calls process_events (client.py 198-201)
WaitLoop ==
    /\ stack # <<>> /\ ~raising
    /\ Top[1] = "wait_until_loaded"
    /\ Top[2] \notin images
    /\ Top[3] > 0
    /\ session # None
    /\ Frame("wait_until_loaded", Call(Self, "process_events", 0))
    /\ stack' = Pop(stack) \o << <<"wait_until_loaded", Top[2], Top[3] - 1>>,
                                 <<"process_events", 0, 0>> >>
    /\ UNCHANGED <<images, raising>>

\* wait_until_loaded finds the image loaded and returns it; browse_finished
\* hands the data to the caller's callback and returns (client.py 198, 203-204,
\* 96-97)
WaitReturn ==
    /\ stack # <<>> /\ ~raising
    /\ Top[1] = "wait_until_loaded"
    /\ Top[2] \in images
    /\ Frame("browse_finished",
             Call([Self EXCEPT !.artDone = @ \cup {Top[2]}], "art_callback", Top[2]))
    /\ stack' = Pop(Pop(stack))
    /\ UNCHANGED <<images, raising>>

\* the time is up and the image is not loaded: assert_loaded raises (client.py
\* 198, 203)
WaitTimeout ==
    /\ stack # <<>> /\ ~raising
    /\ Top[1] = "wait_until_loaded"
    /\ Top[2] \notin images
    /\ Top[3] = 0
    /\ Frame("wait_until_loaded", Raise(Self))
    /\ stack' = Pop(stack)
    /\ raising' = (stack' # <<>>)
    /\ UNCHANGED images

\* an exception leaves the top frame.  No frame of the bridge handles it
\* (client.py 94-97, 201, 223); when it leaves a notification handler, the
\* dispatcher inside process_events either reports it and goes on or lets it
\* through; the host's run loop takes what leaves the outermost frame
Unwind ==
    /\ raising
    /\ stack # <<>>
    /\ stack' = Pop(stack)
    /\ \E through \in BOOLEAN :
        raising' = /\ stack' # <<>>
                   /\ (Top[1] = "browse_finished" => through)
    /\ Unmoved
    /\ UNCHANGED images

\* the drain on top has delivered what it had and returns
DrainReturn ==
    /\ stack # <<>> /\ ~raising
    /\ Top[1] = "process_events"
    /\ stack' = Pop(stack)
    /\ Unmoved
    /\ UNCHANGED <<images, raising>>

\* the drain of periodic_check returned: it arms the next timer with the
\* timeout returned and ends (client.py 224)
PeriodicCheckRearm ==
    /\ stack # <<>> /\ ~raising
    /\ Top[1] = "periodic_check"
    /\ \E ms \in Delays :
        LET r == schedule_periodic_check(Self, ms)
        IN  Bounded(r) /\ Frame("periodic_check", r)
    /\ stack' = <<>>
    /\ UNCHANGED <<images, raising>>

NextDrain ==
    \/ Idle /\ Connect
    \/ Idle /\ LoggedIn
    \/ Idle /\ GetArt
    \/ PeriodicCheckEnter
    \/ DeliverBrowseComplete
    \/ ImageLoads
    \/ WaitLoop
    \/ WaitReturn
    \/ WaitTimeout
    \/ Unwind
    \/ DrainReturn
    \/ PeriodicCheckRearm

SpecDrain == Init /\ [][NextDrain]_vars

(* ------------- playback with the session's audio thread ---------------- *)
\* play_track, stop_playback and end_of_track run on the logical context and
\* music_delivery on a thread of the session; no lock is taken in client.py, so
\* the two advance line by line in any order.  In this part the caller's
\* callbacks and the converter return normally: what goes wrong comes from the
\* interleaving alone.
Threads == {"L", "S"}
pc(th) == IF th = "L" THEN lpc ELSE spc
Quiet == lpc = IdlePc /\ spc = IdlePc
\* the operation thread th is in
Routine(th) == IF th = "L" THEN lpc[1] ELSE "music_delivery"

\* thread th goes to position v; music_delivery's local dies with its call
Goto(th, v) ==
    /\ IF th = "L" THEN lpc' = v /\ UNCHANGED spc ELSE spc' = v /\ UNCHANGED lpc
    /\ frames_converted' = IF th = "S" /\ v = IdlePc THEN 0 ELSE frames_converted

\* the bridge and the record of the call after a line ran
Line(name, r) == Bounded(r) /\ Store(name, r) /\ UNCHANGED svars

\* where stop_playback returns to (client.py 182 -> 183; 282 -> 283; 288 -> 289)
Returned(th) == IF th = "L" /\ lpc[1] = "play_track" THEN <<"play_track", 183>> ELSE IdlePc
\* the state stop_playback's caller returns with: music_delivery returns 0
\* (client.py 283, 289)
Returns(th, s) == IF th = "S" THEN Return(s, 0) ELSE s
\* where an exception takes thread th: on the audio thread into the except
\* clause when it is raised inside the try (client.py 279-285); otherwise out
\* of the operation
Thrown(th) == IF th = "S" /\ spc[1] = "try" THEN <<"except", 286>> ELSE IdlePc
Throws(th, s) == IF th = "S" /\ spc[1] = "try" THEN s ELSE Raise(s)

\* stop_playback: if self.audio_converter is None: return (client.py 143-144)
Line143(th) ==
    /\ pc(th)[2] = 143
    /\ IF audio_converter = None
       THEN Line(Routine(th), Returns(th, Self)) /\ Goto(th, Returned(th))
       ELSE Line(Routine(th), Self) /\ Goto(th, <<pc(th)[1], 228>>)

\* cleanup: if self.stop_callback is not None (client.py 228)
Line228(th) ==
    /\ pc(th)[2] = 228
    /\ Line(Routine(th), Self)
    /\ Goto(th, <<pc(th)[1], IF stop_callback # None THEN 229 ELSE 231>>)

\* cleanup: self.stop_callback() (client.py 229); the field is read again, and
\* calling None raises
Line229(th) ==
    /\ pc(th)[2] = 229
    /\ IF stop_callback = None
       THEN Line(Routine(th), Throws(th, Self)) /\ Goto(th, Thrown(th))
       ELSE /\ Line(Routine(th),
                    Call([Self EXCEPT !.calls[stop_callback] = @ + 1],
                         "stop_callback", stop_callback))
            /\ Goto(th, <<pc(th)[1], 230>>)

\* cleanup: self.stop_callback = None (client.py 230)
Line230(th) ==
    /\ pc(th)[2] = 230
    /\ Line(Routine(th), [Self EXCEPT !.stop_callback = None])
    /\ Goto(th, <<pc(th)[1], 231>>)

\* cleanup: self.audio_converter = None (client.py 231), and the return
Line231(th) ==
    /\ pc(th)[2] = 231
    /\ Line(Routine(th), Returns(th, [Self EXCEPT !.audio_converter = None]))
    /\ Goto(th, Returned(th))

Cleanup == \E th \in Threads : Line143(th) \/ Line228(th) \/ Line229(th) \/ Line230(th) \/ Line231(th)

\* play_track up to its call of stop_playback (client.py 180-182)
PlayTrackLoad ==
    /\ lpc = IdlePc
    /\ plays < MaxPlays
    /\ \E loadOk \in BOOLEAN :
        IF loadOk
        THEN Line("play_track", Self) /\ Goto("L", <<"play_track", 143>>)
        ELSE Line("play_track", Raise(Self)) /\ Goto("L", IdlePc)

\* play_track: self.session.load(track); self.session.play(True) (client.py
\* 183-184); from here on the session delivers audio of track n
PlayTrackStart ==
    /\ lpc = <<"play_track", 183>>
    /\ LET n == plays + 1
       IN  IF session = None
           THEN Line("play_track", Raise(Self)) /\ Goto("L", IdlePc)
           ELSE /\ Line("play_track",
                        [Call(Call(Self, "session.load", n), "session.play", n)
                            EXCEPT !.plays = n])
                /\ Goto("L", <<"play_track", 185>>)

\* play_track: self.audio_converter = PCMToAIFFConverter(track) (client.py 185)
PlayTrackConverter ==
    /\ lpc = <<"play_track", 185>>
    /\ Line("play_track", [Self EXCEPT !.audio_converter = plays])
    /\ Goto("L", <<"play_track", 186>>)

\* play_track: self.audio_callback = audio_callback (client.py 186)
PlayTrackAudioCallback ==
    /\ lpc = <<"play_track", 186>>
    /\ Line("play_track", [Self EXCEPT !.audio_callback = plays])
    /\ Goto("L", <<"play_track", 187>>)

\* play_track: self.stop_callback = stop_callback (client.py 187)
PlayTrackStopCallback ==
    /\ lpc = <<"play_track", 187>>
    /\ Line("play_track", [Self EXCEPT !.stop_callback = plays])
    /\ Goto("L", IdlePc)

\* stop_playback is called on the logical context (client.py 141)
StopPlaybackCalled ==
    /\ lpc = IdlePc
    /\ audio_converter # None
    /\ Line("stop_playback", Self)
    /\ Goto("L", <<"stop_playback", 143>>)

\* the session reports the end of the track: end_of_track calls cleanup
\* (client.py 247-250)
EndOfTrackCalled ==
    /\ lpc = IdlePc
    /\ plays >= 1
    /\ audio_converter # None
    /\ Line("end_of_track", Self)
    /\ Goto("L", <<"end_of_track", 228>>)

\* the session calls music_delivery on its thread: if not self.audio_converter:
\* return 0 (client.py 277-279)
MusicDeliveryCalled ==
    /\ spc = IdlePc
    /\ plays >= 1
    /\ IF audio_converter = None
       THEN Line("music_delivery", Return(Self, 0)) /\ Goto("S", IdlePc)
       ELSE Line("music_delivery", Self) /\ Goto("S", <<"try", 280>>)

\* frames_converted = self.audio_converter.convert(frames, num_frames)
\* (client.py 280); the field is read again: None has no convert
MusicDeliveryConvert ==
    /\ spc = <<"try", 280>>
    /\ IF audio_converter = None
       THEN /\ Line("music_delivery", Self)
            /\ spc' = <<"except", 286>>
            /\ UNCHANGED <<lpc, frames_converted>>
       ELSE /\ Line("music_delivery", Call(Self, "convert", audio_converter))
            /\ spc' = <<"try", 281>>
            /\ frames_converted' \in 0..MaxFrames
            /\ UNCHANGED lpc

\* if not self.audio_callback(self.audio_converter.get_pending_data())
\* (client.py 281-284): both fields are read as they are now
MusicDeliverySink ==
    /\ spc = <<"try", 281>>
    /\ IF audio_converter = None
       THEN Line("music_delivery", Self) /\ Goto("S", <<"except", 286>>)
       ELSE LET s1 == Call(Self, "get_pending_data", audio_converter)
            IN  IF audio_callback = None
                THEN /\ Line("music_delivery", Call(s1, "audio_callback->raise", audio_callback))
                     /\ Goto("S", <<"except", 286>>)
                ELSE \E more \in BOOLEAN :
                        IF more
                        THEN /\ Line("music_delivery",
                                     Return(Call(s1, "audio_callback->True", audio_callback),
                                            frames_converted))
                             /\ Goto("S", IdlePc)
                        ELSE /\ Line("music_delivery",
                                     Call(s1, "audio_callback->False", audio_callback))
                             /\ Goto("S", <<"try", 143>>)

\* except Exception: if self.audio_converter: ... self.stop_playback(); return 0
\* (client.py 285-289)
MusicDeliveryExcept ==
    /\ spc = <<"except", 286>>
    /\ IF audio_converter # None
       THEN Line("music_delivery", Self) /\ Goto("S", <<"except", 143>>)
       ELSE Line("music_delivery", Return(Self, 0)) /\ Goto("S", IdlePc)

NextConc ==
    \/ Quiet /\ Connect
    \/ Quiet /\ LoggedIn
    \/ PlayTrackLoad
    \/ PlayTrackStart
    \/ PlayTrackConverter
    \/ PlayTrackAudioCallback
    \/ PlayTrackStopCallback
    \/ StopPlaybackCalled
    \/ EndOfTrackCalled
    \/ MusicDeliveryCalled
    \/ MusicDeliveryConvert
    \/ MusicDeliverySink
    \/ MusicDeliveryExcept
    \/ Cleanup

SpecConc == Init /\ [][NextConc]_vars

(* ------------------------------ claims --------------------------------- *)
\* the last operation made the collaborator call `name`
HasEvent(name) == \E i \in 1..Len(ev) : ev[i][1] = name
\* the bridge as __init__ leaves it
Fresh ==
    /\ bridge = <<None, None, FALSE, None, None, None>>
    /\ engine = "none"

\* C1: every stop callback a successful play_track registered is invoked at
\* most once, and exactly once when its playback context is gone
\* (audio_converter no longer holds its converter), whatever ended playback.
C1_StopExactlyOnce ==
    \A c \in 1..plays :
        /\ calls[c] <= 1
        /\ audio_converter # c => calls[c] = 1

\* C2: every call of cleanup (end_of_track is cleanup) leaves stop_callback
\* and audio_converter absent, invokes the stop callback once when one is
\* registered and invokes nothing when none is: N calls in a row invoke it once.
C2_CleanupIdempotent ==
    [][op' = "end_of_track" =>
          /\ stop_callback' = None
          /\ audio_converter' = None
          /\ calls' = IF stop_callback # None
                      THEN [calls EXCEPT ![stop_callback] = @ + 1]
                      ELSE calls]_vars

\* C3: a play_track that succeeds while a playback context is present invokes
\* the stop callback of that context first, then tells the session to load and
\* play the new track, and only then installs the new context; and the three
\* fields never hold parts of two contexts.
C3_OldStoppedBeforeNew ==
    /\ [][(op' = "play_track" /\ ~exc' /\ stop_callback # None) =>
             /\ plays' = plays + 1
             /\ stop_callback # plays'
             /\ ev' = << <<"stop_callback", stop_callback>>,
                         <<"session.load", plays'>>, <<"session.play", plays'>> >>
             /\ calls' = [calls EXCEPT ![stop_callback] = @ + 1]
             /\ audio_converter' = plays'
             /\ audio_callback' = plays'
             /\ stop_callback' = plays']_vars
    /\ [](/\ stop_callback # None => audio_converter = stop_callback
          /\ audio_converter # None => audio_callback = audio_converter)

\* C3 witness: the second play_track succeeded while the first context was
\* present, and stopped it first
C3_Witness ==
    /\ op = "play_track"
    /\ ~exc
    /\ stop_callback = 2
    /\ ev = << <<"stop_callback", 1>>, <<"session.load", 2>>, <<"session.play", 2>> >>
    /\ calls[1] = 1

\* C4: music_delivery with no playback context returns 0, makes no call at
\* all and changes no field of the bridge.
C4_NoContextNoEffect ==
    [][(op' = "music_delivery" /\ audio_converter = None) =>
          /\ ret' = 0
          /\ ~exc'
          /\ ev' = <<>>
          /\ bridge' = bridge
          /\ calls' = calls
          /\ plays' = plays
          /\ armed' = armed]_vars

\* C4 witness: music_delivery ran after a playback context had ended (its
\* audio callback is still stored) and returned 0 without a call
C4_Witness ==
    /\ op = "music_delivery"
    /\ audio_converter = None
    /\ audio_callback # None
    /\ ev = <<>>
    /\ ret = 0

\* C5: a music_delivery call whose audio callback returns false returns 0 and
\* leaves no playback context; the music_delivery call after it returns 0 and
\* does not call the audio callback.
C5_Refused == op = "music_delivery" /\ HasEvent("audio_callback->False")
C5_RefusedFrameStops ==
    [][/\ C5_Refused' => (ret' = 0 /\ ~exc' /\ audio_converter' = None /\ stop_callback' = None)
       /\ (C5_Refused /\ op' = "music_delivery") => (ret' = 0 /\ ~exc' /\ ev' = <<>>)]_vars

\* C6: once logged_out has been handled no periodic_check begins and no timer
\* is armed.
C6_NoPumpAfterLogout == ~lateCheck /\ ~lateArm

\* C7: connect on a fresh bridge leaves is_logging_in true and is_logged_in
\* false; logged_in(session, None) leaves is_logged_in true and is_logging_in
\* false; and they stay so through every operation but logged_out and connect.
C7_LoggedOutDelivered == op = "logged_out" \/ (op = "periodic_check" /\ HasEvent("logged_out"))
C7_LoginState ==
    [][/\ (Fresh /\ op' = "connect") => (is_logging_in' /\ ~is_logged_in')
       /\ (op' = "logged_in" \/ (op' = "periodic_check" /\ HasEvent("logged_in")'))
             => (is_logged_in' /\ ~is_logging_in')
       /\ (is_logged_in /\ ~is_logging_in /\ op' # "connect" /\ ~C7_LoggedOutDelivered')
             => (is_logged_in' /\ ~is_logging_in')]_vars

\* C7 witness: after connect armed the pump, logged_in(session, None) left the
\* bridge logged in and no longer logging in
C7_Witness ==
    /\ op = "logged_in"
    /\ is_logged_in
    /\ ~is_logging_in
    /\ armed # {}

\* C8: logged_in with an error, on a bridge without a session handle, clears
\* logging_in and leaves the session handle absent.
C8_FailedLoginStaysOut ==
    [][(session = None /\ (op' = "login_failed" \/ (op' = "periodic_check" /\ HasEvent("login_failed")')))
          => (~is_logging_in' /\ ~is_logged_in')]_vars

C10_NonAlbumRejected ==
    /\ [][(op' = "get_art" /\ artReqs'[Len(artReqs')] # "album") =>
             /\ exc'
             /\ ev' = <<>>
             /\ bridge' = bridge
             /\ browses' = browses
             /\ artDone' = artDone
             /\ armed' = armed]_vars
    /\ [](\A n \in browses \cup artDone : artReqs[n] = "album")

\* C10 witness: a logged-in bridge refused a request for a track's artwork
C10_Witness ==
    /\ op = "get_art"
    /\ session # None
    /\ artReqs[Len(artReqs)] = "track"
    /\ exc
    /\ ev = <<>>

\* the stop callback invocations of the last operation
StopEvents == Cardinality({i \in 1..Len(ev) : ev[i][1] = "stop_callback"})

\* C11: a music_delivery call in which a step failed (convert raised, the
\* audio callback raised, or the stop callback raised in the stop after a
\* refused frame) returns 0, lets no exception out and leaves no playback
\* context.
C11_StepFailed ==
    /\ op = "music_delivery"
    /\ HasEvent("convert")
    /\ \/ ~HasEvent("get_pending_data")
       \/ HasEvent("audio_callback->raise")
       \/ HasEvent("audio_callback->False") /\ (exc \/ StopEvents >= 2)
C11_FailureAbsorbed ==
    C11_StepFailed => (ret = 0 /\ ~exc /\ audio_converter = None /\ stop_callback = None)

\* C12: at most one timer is armed, and it is the one self.timer holds.
C12_OneLiveTimer == Cardinality(armed) <= 1 /\ armed \subseteq {timer}

\* C13: is_logging_in and is_logged_in are never both true.
C13_OneLoginState == ~(is_logging_in /\ is_logged_in)

\* C14 (safety): in every state, a periodic_check on any armed timer whose
\* drain does not raise ends with a timer armed, held by self.timer, scheduled
\* with the delay the drain returned.
C14_CompletedCheckRearms ==
    \A t \in armed :
        LET s == [Self EXCEPT !.armed = @ \ {t}]
        IN  \A d \in DrainEvents(s) \ {"raise"}, ms \in Delays :
                LET r == periodic_check(s, d, ms)
                IN  /\ ~r.exc
                    /\ r.timer \in r.armed
                    /\ r.ev[Len(r.ev)] = <<"schedule_timer", ms>>
                    /\ Len(r.ev) >= 2
                    /\ r.ev[1] = <<"process_events", 0>>

\* C14 (liveness): while the session is active and a timer is armed, another
\* periodic_check executes (or the session is logged out first).
C14_NextCheckRuns ==
    <>[](engine = "active" /\ armed # {}) => []<><<tick' # tick>>_vars

\* C14: the pump cycle never stops while the session is active and the drain
\* does not fail: every completed periodic_check arms the next timer with the
\* returned delay, and with timers that fire the next periodic_check runs.
C14_PumpNeverStops == []C14_CompletedCheckRearms /\ C14_NextCheckRuns

\* C14 witness: logged in, a periodic_check completed, and the timer it armed
\* with the returned delay of 1000 ms is the live one; the check before it
\* completed too (the parity is even again)
C14_Witness ==
    /\ op = "periodic_check"
    /\ ~exc
    /\ ev = << <<"process_events", 0>>, <<"schedule_timer", 1000>> >>
    /\ session # None
    /\ engine = "active"
    /\ armed = {timer}
    /\ ~tick

\* C15: a periodic_check whose drain raises arms no timer and leaves
\* self.timer (and the other fields) as they were; the timer that fired is
\* the only one that left the scheduler.
C15_FailedDrainEndsCycle ==
    [][(op' = "periodic_check" /\ exc') =>
          /\ bridge' = bridge
          /\ ~HasEvent("schedule_timer")'
          /\ armed' \subseteq armed
          /\ Cardinality(armed') = Cardinality(armed) - 1]_vars

\* C15 witness: a periodic_check raised out of its drain and no timer is armed
C15_Witness ==
    /\ op = "periodic_check"
    /\ exc
    /\ ev = << <<"process_events", 0>> >>
    /\ armed = {}
    /\ timer # None

\* C16: no call of session.process_events begins while another one is in
\* progress on the logical context.
C16_NoOverlappingDrains == DrainsInProgress <= 1

\* C17 (first part): the audio callback music_delivery calls belongs to the
\* converter whose pending data it passes.
C17_ContextPaired ==
    op = "music_delivery" =>
        \A i \in 1..Len(ev), j \in 1..Len(ev) :
            (/\ ev[i][1] = "get_pending_data"
             /\ ev[j][1] \in {"audio_callback->True", "audio_callback->False",
                              "audio_callback->raise"})
                => ev[i][2] = ev[j][2]

\* C17 (second part): when no call is under way, no stop callback is
\* registered without a converter.
C17_NoOrphanStopCallback ==
    Quiet => ~(stop_callback # None /\ audio_converter = None)

\* C17: music_delivery interleaved with play_track never sees a partly
\* installed playback context, and the interleaving never leaves a stop
\* callback registered while audio_converter is absent.
C17_NoPartialContext == C17_ContextPaired /\ C17_NoOrphanStopCallback

\* C18: with cleanup reached from the logical context and from the audio
\* thread at once, every registered stop callback is invoked at most once.
C18_StopAtMostOnce == \A c \in DOMAIN calls : calls[c] <= 1

\* C19: in every state, a play_track whose track does not load raises without
\* a call to the stop callback or the session and leaves every field, counter
\* and timer as it was.
C19_FailedLoadKeepsContext ==
    \A o \in Outcomes, started \in BOOLEAN :
        LET r == play_track(Self, FALSE, o, started)
        IN  /\ r.exc
            /\ r.ev = <<>>
            /\ r = [Self EXCEPT !.exc = TRUE]

\* C19 witness: play_track failed on a logged-in bridge with a playback
\* context, without a call: its track did not load; the context is still there
C19_Witness ==
    /\ op = "play_track"
    /\ exc
    /\ ev = <<>>
    /\ session # None
    /\ stop_callback # None
    /\ audio_converter = stop_callback
    /\ calls[stop_callback] = 0

\* C20: in every state with a playback context, a music_delivery call whose
\* converter consumes conv frames and whose audio callback returns true feeds
\* the converter once, calls the audio callback once with the pending data,
\* returns conv and changes nothing.
C20_AcceptedFramesCounted ==
    audio_converter # None =>
        \A conv \in 0..MaxFrames, o1 \in Outcomes, o2 \in Outcomes :
            LET r == music_delivery(Self, conv, "true", o1, o2)
            IN  /\ r.ev = << <<"convert", audio_converter>>,
                             <<"get_pending_data", audio_converter>>,
                             <<"audio_callback->True", audio_callback>> >>
                /\ r = [Self EXCEPT !.ev = r.ev, !.ret = conv]

\* C20 witness: music_delivery passed the data on and returned the number of
\* frames offered
C20_Witness ==
    /\ op = "music_delivery"
    /\ HasEvent("audio_callback->True")
    /\ ret = MaxFrames
    /\ audio_converter # None
    /\ audio_callback = audio_converter

=============================================================================
